---------------------------- MODULE Spec2Model ----------------------------
(***************************************************************************)
(* A model of the PhoneLab platform checker: tagdoc.py (comment scanning,  *)
(* tag-record parsing, project walk, HTML/RST report) and checker.py (the  *)
(* merge-and-build stages of main).                                        *)
(*                                                                         *)
(* Text is modelled as a sequence of symbols.  A symbol is one character   *)
(* ("/", "*", "{", "}", " ", "\n", "x"), the marker token "PhoneLab", or   *)
(* one whole key/value pair of a JSON object ("Tag=ui-UB").  Field values  *)
(* (category, tag, action ...) are strings modelled as sequences of        *)
(* character codes, compared the way Python compares strings.              *)
(***************************************************************************)
EXTENDS Integers, Sequences, FiniteSets, TLC

VARIABLES
    pc,         \* control position of the running function
    s,          \* create_from_file: the text read from the file
    pos,        \* create_from_file: offset where finditer resumes
    tag_docs,   \* the list of TagDoc records collected so far
    log,        \* the lines handed to utils.logger, in order
    html,       \* str(HTMLFormatter(tag_docs)), None before it is rendered
    rst,        \* str(RSTFormatter(tag_docs)), None before it is rendered
    projects,   \* tagdoc main: the projects of the manifest
    pi,         \* tagdoc main: index of the project the loop is at
    walked,     \* tagdoc main: project indexes handed to create_from_proj
    written,    \* tagdoc main: what was printed to args.out, in order
    src_file,   \* create_from_file: the file it was called on
    args,       \* checker: the parsed command line
    events,     \* checker: stage starts, completions and raises, in order
    cmds,       \* checker: shell commands issued, in order
    rel_info,   \* checker: the ReleaseInfo vehicle
    branches,   \* checker: the lines git branch -a prints, sorted
    exc,        \* checker: the exception in flight, None when there is none
    cwd         \* the process working directory

vars == <<pc, s, pos, tag_docs, log, html, rst, projects, pi, walked,
          written, src_file, args, events, cmds, rel_info, branches, exc,
          cwd>>

tagdocVars ==
    <<s, pos, tag_docs, html, rst, projects, pi, walked, written, src_file>>
checkerVars == <<args, events, cmds, rel_info, branches, exc>>

None == "None"

\* A report that has not been rendered.
NotRendered == [format |-> None]

\* What a search returns when the pattern matches nowhere.
NoMatch == [found |-> FALSE]

-----------------------------------------------------------------------------
(* Bounds of the model. *)

MaxDocs == 3
MaxSegs == 3
MaxProjects == 2
MaxFiles == 2
MaxRepoProjs == 2

-----------------------------------------------------------------------------
(* Python strings as sequences of character codes. *)

Dash == 45

Min(a, b) == IF a <= b THEN a ELSE b

\* Python's str.__lt__: code-point order, a proper prefix sorts first.
StrLT(a, b) ==
    \E i \in 1..(Min(Len(a), Len(b)) + 1) :
        /\ \A j \in 1..(i - 1) : a[j] = b[j]
        /\ \/ i <= Len(a) /\ i <= Len(b) /\ a[i] < b[i]
           \/ i = Len(a) + 1 /\ i <= Len(b)

StrLE(a, b) == a = b \/ StrLT(a, b)

\* str.split(sep): the list of pieces between the separators.
RECURSIVE SplitFrom(_, _, _)
SplitFrom(str, sep, cur) ==
    IF str = <<>> THEN <<cur>>
    ELSE IF Head(str) = sep
         THEN <<cur>> \o SplitFrom(Tail(str), sep, <<>>)
         ELSE SplitFrom(Tail(str), sep, Append(cur, Head(str)))

split(str, sep) == SplitFrom(str, sep, <<>>)

\* sorted(list(set(...))) over strings: the distinct values, ascending.
RECURSIVE sorted_set(_)
sorted_set(S) ==
    IF S = {} THEN <<>>
    ELSE LET m == CHOOSE x \in S : \A y \in S : StrLE(x, y)
         IN  <<m>> \o sorted_set(S \ {m})

\* One insertion of a stable sort on key t.action: t goes after every
\* element whose action is less than or equal to its own.
RECURSIVE InsertByAction(_, _)
InsertByAction(t, sortedSeq) ==
    IF sortedSeq = <<>> THEN <<t>>
    ELSE IF StrLE(Head(sortedSeq).action, t.action)
         THEN <<Head(sortedSeq)>> \o InsertByAction(t, Tail(sortedSeq))
         ELSE <<t>> \o sortedSeq

RECURSIVE SortedFrom(_, _)
SortedFrom(seq, acc) ==
    IF seq = <<>> THEN acc
    ELSE SortedFrom(Tail(seq), InsertByAction(Head(seq), acc))

\* A sort by action that puts t before the elements of equal action: ties
\* come out in reverse discovery order.
RECURSIVE UnstableSortedFrom(_, _)
UnstableSortedFrom(seq, acc) ==
    IF seq = <<>> THEN acc
    ELSE LET t == Head(seq)
             before == SelectSeq(acc, LAMBDA y : StrLT(y.action, t.action))
             after  == SelectSeq(acc, LAMBDA y : ~StrLT(y.action, t.action))
         IN  UnstableSortedFrom(Tail(seq), before \o <<t>> \o after)

sorted_unstable(seq) == UnstableSortedFrom(seq, <<>>)

\* sorted(list, key=lambda t: t.action): Python's sort is stable.
sorted_by_action(seq) == SortedFrom(seq, <<>>)

-----------------------------------------------------------------------------
(* class TagDoc: the record built from one decoded payload. *)

\* The keys of the decoded JSON object that TagDoc.__init__ reads.
FIELD_MAPPING ==
    [category |-> "Category", sub_category |-> "SubCategory", tag |-> "Tag",
     action |-> "Action", description |-> "Description"]

Keys == {FIELD_MAPPING[a] : a \in DOMAIN FIELD_MAPPING}

Last(seq) == seq[Len(seq)]

\* self.tag.split('-')[0]: the piece before the first dash.
institution_first_piece(tag) == split(tag, Dash)[1]

\* self.tag.split('-')[-1]
institution_of(tag) == Last(split(tag, Dash))

\* TagDoc(doc, proj, file, line_no).  doc is the decoded object, a function
\* from its keys to strings; a key that FIELD_MAPPING names and doc lacks
\* raises KeyError.
TagDoc_init(doc, proj, file, line_no) ==
    IF \E a \in DOMAIN FIELD_MAPPING : FIELD_MAPPING[a] \notin DOMAIN doc
    THEN [exc |-> "KeyError"]
    ELSE [exc |-> None,
          val |-> [proj |-> proj, file |-> file, line_no |-> line_no,
                   category |-> doc["Category"],
                   sub_category |-> doc["SubCategory"],
                   tag |-> doc["Tag"],
                   action |-> doc["Action"],
                   description |-> doc["Description"],
                   institution |-> institution_of(doc["Tag"])]]

NoDoc ==
    [proj |-> 0, file |-> 0, line_no |-> 0, category |-> <<>>,
     sub_category |-> <<>>, tag |-> <<>>, action |-> <<>>,
     description |-> <<>>, institution |-> <<>>]

-----------------------------------------------------------------------------
(* The formatters.  A rendered report is its summary counts and the list   *)
(* of body lines; a line is its markup m, the string it interpolates and,  *)
(* for a line of an occurrence, the TagDoc it shows.                       *)

Line(m, text, t) == [m |-> m, text |-> text, t |-> t]

\* set([t.tag for t in docs]) and its like.
TagsOf(docs) == {docs[i].tag : i \in DOMAIN docs}
ActionsOf(docs) == {docs[i].action : i \in DOMAIN docs}
CategoriesOf(docs) == {docs[i].category : i \in DOMAIN docs}
\* The set of tags where the set of institutions is meant.
InstitutionsOf_tags(docs) == {docs[i].tag : i \in DOMAIN docs}

InstitutionsOf(docs) == {docs[i].institution : i \in DOMAIN docs}

RECURSIVE HTMLOccurrences(_)
HTMLOccurrences(ts) ==
    IF ts = <<>> THEN <<>>
    ELSE LET tag == Head(ts)
         IN  << Line("<li>", <<>>, NoDoc),
                Line("<b>Action</b>", tag.action, tag),
                Line("<b>File</b>", <<>>, tag),
                Line("<b>Description</b>", tag.description, tag),
                Line("</li>", <<>>, NoDoc) >>
             \o HTMLOccurrences(Tail(ts))

RECURSIVE HTMLTags(_, _)
HTMLTags(tags, category_tags) ==
    IF tags = <<>> THEN <<>>
    ELSE LET tag == Head(tags)
         IN  << Line("<h4>", tag, NoDoc), Line("<ol>", <<>>, NoDoc) >>
             \o HTMLOccurrences(sorted_by_action(
                    SelectSeq(category_tags, LAMBDA t : t.tag = tag)))
             \o << Line("</ol>", <<>>, NoDoc) >>
             \o HTMLTags(Tail(tags), category_tags)

RECURSIVE HTMLCategories(_, _)
HTMLCategories(categories, docs) ==
    IF categories = <<>> THEN <<>>
    ELSE LET category == Head(categories)
             category_tags == SelectSeq(docs, LAMBDA t : t.category = category)
         IN  << Line("<h2>", category, NoDoc) >>
             \o HTMLTags(sorted_set(TagsOf(category_tags)),
                         category_tags)
             \o HTMLCategories(Tail(categories), docs)

\* HTMLFormatter.__repr__: summary + body + footer.
HTMLFormatter_repr(docs) ==
    [format |-> "html",
     summary |-> LET tags == TagsOf(docs)
                     actions == ActionsOf(docs)
                     categories == CategoriesOf(docs)
                     institutions == InstitutionsOf(docs)
                 IN  [tags |-> Cardinality(tags),
                      actions |-> Cardinality(actions),
                      categories |-> Cardinality(categories),
                      institutions |-> Cardinality(institutions),
                      plural |-> Cardinality(institutions) > 1],
     body |-> HTMLCategories(
                  sorted_set(CategoriesOf(docs)), docs),
     footer |-> "<hr>"]

RECURSIVE RSTOccurrences(_)
RSTOccurrences(ts) ==
    IF ts = <<>> THEN <<>>
    ELSE LET tag == Head(ts)
         IN  << Line("#. | **Action**", tag.action, tag),
                Line("   | **Project**", <<>>, tag),
                Line("   | **File**", <<>>, tag),
                Line("   | **Description**", tag.description, tag) >>
             \o RSTOccurrences(Tail(ts))

\* RSTFormatter.wrap_title: the title over a rule of the level character.
wrap_title(title, level) == Line(level, title, NoDoc)

\* The tag subsections with their occurrences left in discovery order.
RECURSIVE RSTTags_unsorted(_, _)
RSTTags_unsorted(tags, category_tags) ==
    IF tags = <<>> THEN <<>>
    ELSE LET tag == Head(tags)
         IN  << Line("\n\n", <<>>, NoDoc), wrap_title(tag, "~"),
                Line("\n", <<>>, NoDoc) >>
             \o RSTOccurrences(
                    SelectSeq(category_tags, LAMBDA t : t.tag = tag))
             \o RSTTags_unsorted(Tail(tags), category_tags)

RECURSIVE RSTTags(_, _)
RSTTags(tags, category_tags) ==
    IF tags = <<>> THEN <<>>
    ELSE LET tag == Head(tags)
         IN  << Line("\n\n", <<>>, NoDoc), wrap_title(tag, "~"),
                Line("\n", <<>>, NoDoc) >>
             \o RSTOccurrences(sorted_by_action(
                    SelectSeq(category_tags, LAMBDA t : t.tag = tag)))
             \o RSTTags(Tail(tags), category_tags)

RECURSIVE RSTCategories(_, _)
RSTCategories(categories, docs) ==
    IF categories = <<>> THEN <<>>
    ELSE LET category == Head(categories)
             category_tags == SelectSeq(docs, LAMBDA t : t.category = category)
         IN  << Line("\n\n", <<>>, NoDoc), wrap_title(category, "+") >>
             \o RSTTags(sorted_set(TagsOf(category_tags)),
                        category_tags)
             \o RSTCategories(Tail(categories), docs)

\* RSTFormatter.__repr__: header + summary + body + footer.
RSTFormatter_repr(docs) ==
    [format |-> "rst",
     summary |-> LET tags == TagsOf(docs)
                     actions == ActionsOf(docs)
                     categories == CategoriesOf(docs)
                     institutions == InstitutionsOf(docs)
                 IN  [tags |-> Cardinality(tags),
                      actions |-> Cardinality(actions),
                      categories |-> Cardinality(categories),
                      institutions |-> Cardinality(institutions),
                      plural |-> Cardinality(institutions) > 1],
     body |-> RSTCategories(
                  sorted_set(CategoriesOf(docs)), docs),
     footer |-> "Last updated"]

FORMATTER_MAPPING(format, docs) ==
    IF format = "html" THEN HTMLFormatter_repr(docs)
                       ELSE RSTFormatter_repr(docs)

-----------------------------------------------------------------------------
(* Text: the symbols, the two patterns and the JSON decoder. *)

Marker == "PhoneLab"

\* A key/value pair of a JSON object, as one symbol of the text.
FieldTable ==
    ("Category=Net"  :> [key |-> "Category",    val |-> <<78, 101, 116>>]) @@
    ("Category=UI"   :> [key |-> "Category",    val |-> <<85, 73>>]) @@
    ("SubCategory=s" :> [key |-> "SubCategory", val |-> <<115>>]) @@
    ("Tag=l-UB"      :> [key |-> "Tag",         val |-> <<108, 45, 85, 66>>]) @@
    ("Tag=u-e-UB"    :> [key |-> "Tag",         val |-> <<117, 45, 101, 45, 85, 66>>]) @@
    ("Tag=n"         :> [key |-> "Tag",         val |-> <<110>>]) @@
    ("Action=Log"    :> [key |-> "Action",      val |-> <<76, 111, 103>>]) @@
    ("Action=Drop"   :> [key |-> "Action",      val |-> <<68, 114, 111, 112>>]) @@
    ("Description=d" :> [key |-> "Description", val |-> <<100>>])

\* COMMENT_PATTERN = /\*(?P<body>.*?)\*/ with DOTALL, searched from offset
\* from (1-based): the leftmost "/*" that a "*/" follows, up to the first
\* such "*/".
COMMENT_PATTERN_search(text, from) ==
    LET opens == {i \in from..(Len(text) - 3) :
                     /\ text[i] = "/" /\ text[i + 1] = "*"
                     /\ \E j \in (i + 2)..(Len(text) - 1) :
                            text[j] = "*" /\ text[j + 1] = "/"}
    IN  IF opens = {} THEN NoMatch
        ELSE LET i == CHOOSE o \in opens : \A o2 \in opens : o <= o2
                 j == CHOOSE c \in (i + 2)..(Len(text) - 1) :
                         /\ text[c] = "*" /\ text[c + 1] = "/"
                         /\ \A c2 \in (i + 2)..(c - 1) :
                                ~(text[c2] = "*" /\ text[c2 + 1] = "/")
             IN  [found |-> TRUE, start |-> i, body |-> SubSeq(text, i + 2, j - 1),
                  end |-> j + 2]

\* PHONELAB_DOC_PATTERN = PhoneLab.*?(?P<json>\{.*\}) with DOTALL, searched
\* in a comment body: from the first marker, lazily to the first "{" that a
\* "}" follows, then greedily to the last "}" of the body.
PHONELAB_DOC_PATTERN_search(body) ==
    LET ms == {k \in DOMAIN body :
                  /\ body[k] = Marker
                  /\ \E a \in (k + 1)..Len(body) :
                         /\ body[a] = "{"
                         /\ \E b \in (a + 1)..Len(body) : body[b] = "}"}
    IN  IF ms = {} THEN NoMatch
        ELSE LET k == CHOOSE m \in ms : \A m2 \in ms : m <= m2
                 a == CHOOSE o \in (k + 1)..Len(body) :
                         /\ body[o] = "{"
                         /\ \E b \in (o + 1)..Len(body) : body[b] = "}"
                         /\ \A o2 \in (k + 1)..(o - 1) : body[o2] # "{"
                 b == CHOOSE c \in (a + 1)..Len(body) :
                         /\ body[c] = "}"
                         /\ \A c2 \in (c + 1)..Len(body) : body[c2] # "}"
             IN  [found |-> TRUE, json |-> SubSeq(body, a, b), from |-> a, to |-> b]

\* str.replace(sym, '')
remove(text, sym) == SelectSeq(text, LAMBDA c : c # sym)

\* str.splitlines(): the lines, without a last empty one.
splitlines(text) ==
    IF text = <<>> THEN <<>>
    ELSE LET parts == split(text, "\n")
         IN  IF Last(parts) = <<>> THEN SubSeq(parts, 1, Len(parts) - 1)
             ELSE parts

\* str.strip(): without the blanks at either end.
RECURSIVE lstrip(_)
lstrip(l) == IF l # <<>> /\ Head(l) = " " THEN lstrip(Tail(l)) ELSE l

RECURSIVE rstrip(_)
rstrip(l) ==
    IF l # <<>> /\ Last(l) = " " THEN rstrip(SubSeq(l, 1, Len(l) - 1)) ELSE l

strip(l) == rstrip(lstrip(l))

\* ' '.join(lines)
RECURSIVE join(_)
join(lines) ==
    IF lines = <<>> THEN <<>>
    ELSE IF Len(lines) = 1 THEN lines[1]
    ELSE lines[1] \o <<" ">> \o join(Tail(lines))

\* ' '.join([l.strip() for l in json.replace('*', '').splitlines()])
normalize(json) ==
    LET lines == splitlines(remove(json, "*"))
    IN  join([i \in DOMAIN lines |-> strip(lines[i])])

\* json.loads(text): the decoded object, a function from the keys present
\* to their values (the last pair of a key wins), or ValueError when the
\* text is not one object of key/value pairs.
json_loads(text) ==
    LET toks == SelectSeq(text, LAMBDA c : c \notin {" ", "\n"})
        n == Len(toks)
    IN  IF /\ n >= 2
           /\ toks[1] = "{"
           /\ toks[n] = "}"
           /\ \A i \in 2..(n - 1) : toks[i] \in DOMAIN FieldTable
        THEN [exc |-> None,
              val |-> [k \in {FieldTable[toks[i]].key : i \in 2..(n - 1)} |->
                         LET i == CHOOSE x \in 2..(n - 1) :
                                    /\ FieldTable[toks[x]].key = k
                                    /\ \A y \in (x + 1)..(n - 1) :
                                           FieldTable[toks[y]].key # k
                         IN  FieldTable[toks[i]].val]]
        ELSE [exc |-> "ValueError"]

\* s.count('\n', 0, end): newlines among the first end symbols.
count_newlines(text, end) ==
    Cardinality({i \in 1..end : i <= Len(text) /\ text[i] = "\n"})

LogLine(level, msg, arg) == [level |-> level, msg |-> msg, arg |-> arg]

-----------------------------------------------------------------------------
(* TagDoc.create_from_file *)

SRC_EXTENSIONS == {".c", ".cpp", ".java"}

\* The record's line: the newlines before the comment's start, without
\* the + 1.
line_no_zero_based(text, comment) == count_newlines(text, comment.start - 1)

\* s.count('\n', 0, comment.start()) + 1
line_no_of(text, comment) == count_newlines(text, comment.start - 1) + 1

\* Lines 130-136: the record is appended, or the exception of the try
\* block is logged and the loop goes on.  t is the TagDoc or the exception.
loop_body_except(docs, lg, json, txt, t) ==
    IF t.exc = None
    THEN [docs |-> Append(docs, t.val), log |-> lg]
    ELSE [docs |-> docs,
          log |-> lg \o
             << LogLine("ERROR", "Invalid doc string in file", json),
                LogLine("INFO", "JSON Text", txt) >>]

\* Lines 129-131: TagDoc(json.loads(text), ...), or what either raises.
try_TagDoc(doc, proj, file, line_no) ==
    IF doc.exc = None THEN TagDoc_init(doc.val, proj, file, line_no) ELSE doc

\* Lines 126-136 for a comment the marker pattern matched.
loop_body_try(proj, file, line_no, docs, lg, json, txt) ==
    loop_body_except(docs, lg, json, txt,
                     try_TagDoc(json_loads(txt), proj, file, line_no))

\* Lines 124-136, match being what PHONELAB_DOC_PATTERN.search returned.
loop_body_match(proj, file, text, comment, docs, lg, match) ==
    IF ~match.found THEN [docs |-> docs, log |-> lg]
    ELSE loop_body_try(proj, file, line_no_of(text, comment), docs, lg,
                       match.json, normalize(match.json))

\* The body of the loop over COMMENT_PATTERN.finditer(s), for one comment:
\* the lists tag_docs and log after it.
loop_body(proj, file, text, comment, docs, lg) ==
    loop_body_match(proj, file, text, comment, docs, lg,
                    PHONELAB_DOC_PATTERN_search(comment.body))

\* The whole loop, from offset from on.
RECURSIVE scan_from(_, _, _, _, _, _)

\* The next iteration, with the lists the last one left.
scan_next(proj, file, text, from, r) ==
    scan_from(proj, file, text, from, r.docs, r.log)

\* The loop from comment on; the next comment is searched from its end.
scan_comment(proj, file, text, comment, docs, lg) ==
    IF ~comment.found THEN [docs |-> docs, log |-> lg]
    ELSE scan_next(proj, file, text, comment.end,
                   loop_body(proj, file, text, comment, docs, lg))

scan_from(proj, file, text, from, docs, lg) ==
    scan_comment(proj, file, text, COMMENT_PATTERN_search(text, from),
                 docs, lg)

\* The list create_from_file returns, with the lines logged on the way.
returned_docs(r) == [exc |-> None, val |-> r.docs, log |-> r.log]

\* TagDoc.create_from_file(proj, src_file): the list of records, the lines
\* logged on the way, or the IOError of open().
create_from_file(proj, f) ==
    IF f.ext \notin SRC_EXTENSIONS
    THEN [exc |-> None, val |-> <<>>, log |-> <<>>]
    ELSE IF ~f.readable
    THEN [exc |-> "IOError", val |-> <<>>, log |-> <<>>]
    ELSE returned_docs(scan_from(proj, f.name, f.text, 1, <<>>, <<>>))

(* The files the model reads: texts put together from these pieces. *)

Open == <<"/", "*">>
Close == <<"*", "/">>

Segments ==
    { <<"\n">>,
      <<"x">>,
      Open \o <<" ", "x", " ">> \o Close,
      Open \o <<" ", Marker, " ", "{", "Category=Net", "SubCategory=s",
                "Tag=u-e-UB", "Action=Log", "Description=d", "}", " ">> \o Close,
      Open \o <<"*", "\n", " ", "*", " ", Marker, "\n", " ", "*", " ", "{",
                "Category=UI", "SubCategory=s", "\n", " ", "*", " ", "Tag=n",
                "Action=Drop", "Description=d", "}", "\n", " ">> \o Close,
      Open \o <<" ", Marker, " ", "{", "Category=Net", "SubCategory=s",
                "Action=Log", "Description=d", "}", " ">> \o Close,
      Open \o <<" ", Marker, " ", "{", "Category=Net", " ">> \o Close,
      Open \o <<" ", Marker, " ", "{", "x", "}", " ">> \o Close,
      Open \o <<" ", Marker, " ", "{", "Category=Net", "SubCategory=s",
                "Tag=l-UB", "Action=Log", "Description=d", "}", " ", "x",
                " ", "{", "x", "}", " ">> \o Close,
      Open \o <<" ", "x">> }

RECURSIVE TextsUpTo(_)
TextsUpTo(n) ==
    IF n = 0 THEN {<<>>}
    ELSE LET prev == TextsUpTo(n - 1)
         IN  prev \cup {t \o seg : t \in prev, seg \in Segments}

Texts == TextsUpTo(MaxSegs)

File(name, ext, readable, text) ==
    [name |-> name, ext |-> ext, readable |-> readable, text |-> text]

NoFile == File(0, "", FALSE, <<>>)

\* The state of the parts of the program that are not running.
IdleTagdoc ==
    /\ s = <<>> /\ pos = 0 /\ html = NotRendered /\ rst = NotRendered
    /\ projects = <<>> /\ pi = 0 /\ walked = <<>> /\ written = <<>>
    /\ src_file = NoFile

IdleChecker ==
    /\ args = None /\ events = <<>> /\ cmds = <<>> /\ rel_info = None
    /\ branches = <<>> /\ exc = None

InitFile ==
    /\ pc = "create_from_file"
    /\ src_file \in
          {File(1, ext, TRUE, text) : ext \in {".c", ".java"}, text \in Texts}
          \cup {File(1, ".c", FALSE, <<>>), File(1, ".txt", TRUE, <<>>)}
    /\ s = <<>> /\ pos = 0 /\ tag_docs = <<>> /\ log = <<>>
    /\ html = NotRendered /\ rst = NotRendered
    /\ projects = <<>> /\ pi = 0 /\ walked = <<>> /\ written = <<>>
    /\ cwd = "start"
    /\ IdleChecker

fileUnchanged ==
    UNCHANGED <<html, rst, projects, pi, walked, written, src_file, cwd,
                checkerVars>>

\* Lines 114-116: a file whose extension is not a source extension is not
\* opened.
FileSkipExtension ==
    /\ pc = "create_from_file"
    /\ src_file.ext \notin SRC_EXTENSIONS
    /\ pc' = "returned"
    /\ UNCHANGED <<s, pos, tag_docs, log>>
    /\ fileUnchanged

\* Line 120: open() raises, and nothing in create_from_file catches it.
FileOpenRaises ==
    /\ pc = "create_from_file"
    /\ src_file.ext \in SRC_EXTENSIONS
    /\ ~src_file.readable
    /\ pc' = "raised"
    /\ UNCHANGED <<s, pos, tag_docs, log>>
    /\ fileUnchanged

\* Lines 120-121: s = f.read()
FileRead ==
    /\ pc = "create_from_file"
    /\ src_file.ext \in SRC_EXTENSIONS
    /\ src_file.readable
    /\ s' = src_file.text
    /\ pos' = 1
    /\ pc' = "scan"
    /\ UNCHANGED <<tag_docs, log>>
    /\ fileUnchanged

\* The lists and the offset after the iteration for comment.
ScanResult(comment, r) ==
    /\ tag_docs' = r.docs
    /\ log' = r.log
    /\ pos' = comment.end

ScanStep(comment) ==
    ScanResult(comment,
               loop_body(1, src_file.name, s, comment, tag_docs, log))

\* Lines 122-136: one iteration of the loop over the comments.
FileScanComment ==
    /\ pc = "scan"
    /\ COMMENT_PATTERN_search(s, pos).found
    /\ ScanStep(COMMENT_PATTERN_search(s, pos))
    /\ UNCHANGED <<pc, s>>
    /\ fileUnchanged

\* Line 138: no comment is left, return tag_docs.
FileReturn ==
    /\ pc = "scan"
    /\ ~COMMENT_PATTERN_search(s, pos).found
    /\ pc' = "returned"
    /\ UNCHANGED <<s, pos, tag_docs, log>>
    /\ fileUnchanged

NextFile ==
    \/ FileSkipExtension
    \/ FileOpenRaises
    \/ FileRead
    \/ FileScanComment
    \/ FileReturn

SpecFile == InitFile /\ [][NextFile]_vars

-----------------------------------------------------------------------------
(* What the properties of create_from_file speak of. *)

\* All the comments of a text, in source order.
RECURSIVE CommentsFrom(_, _)
CommentsFrom(text, from) ==
    LET c == COMMENT_PATTERN_search(text, from)
    IN  IF ~c.found THEN <<>> ELSE <<c>> \o CommentsFrom(text, c.end)

\* The comments the loop has been through.
ScannedComments == SelectSeq(CommentsFrom(s, 1), LAMBDA c : c.end <= pos)

HasMarker(body) == \E k \in DOMAIN body : body[k] = Marker

FirstMarker(body) ==
    CHOOSE k \in DOMAIN body :
        body[k] = Marker /\ \A j \in 1..(k - 1) : body[j] # Marker

\* The offsets of the braces after the first marker.
BracesAfterMarker(body) ==
    {a \in (FirstMarker(body) + 1)..Len(body) : body[a] \in {"{", "}"}}

FirstOpenBrace(body) ==
    CHOOSE a \in BracesAfterMarker(body) :
        body[a] = "{" /\
        \A j \in BracesAfterMarker(body) : j < a => body[j] # "{"

Depth(body, a, b) ==
    Cardinality({i \in a..b : body[i] = "{"})
        - Cardinality({i \in a..b : body[i] = "}"})

\* The closing braces that balance the opening brace at a.
BalancingCloses(body, a) ==
    {b \in (a + 1)..Len(body) :
        /\ body[b] = "}"
        /\ Depth(body, a, b) = 0
        /\ \A m \in a..(b - 1) : Depth(body, a, m) > 0}

\* The comment has a payload that is one balanced object.
HasBalancedPayload(body) ==
    /\ HasMarker(body)
    /\ \E a \in BracesAfterMarker(body) : body[a] = "{"
    /\ BalancingCloses(body, FirstOpenBrace(body)) # {}

BalancedPayload(body) ==
    LET a == FirstOpenBrace(body)
        b == CHOOSE c \in BalancingCloses(body, a) : TRUE
    IN  SubSeq(body, a, b)

\* The braces after the marker do not pair up.
Unbalanced(body) ==
    /\ HasMarker(body)
    /\ BracesAfterMarker(body) # {}
    /\ \/ \E b \in BracesAfterMarker(body) :
              Depth(body, FirstMarker(body) + 1, b) < 0
       \/ Depth(body, FirstMarker(body) + 1, Len(body)) # 0

Decodes(payload) == json_loads(normalize(payload)).exc = None

MissingKey(payload) ==
    /\ Decodes(payload)
    /\ ~(Keys \subseteq DOMAIN json_loads(normalize(payload)).val)

\* A comment with the marker whose payload is malformed: unbalanced braces,
\* text that does not decode, or a required key missing.
Malformed(body) ==
    \/ Unbalanced(body)
    \/ /\ HasBalancedPayload(body)
       /\ \/ ~Decodes(BalancedPayload(body))
          \/ MissingKey(BalancedPayload(body))

ErrorCount(lg) == Len(SelectSeq(lg, LAMBDA l : l.level = "ERROR"))

\* The payload create_from_file hands to the decoder decodes and has the
\* five keys.
ValidPayload(body) ==
    LET match == PHONELAB_DOC_PATTERN_search(body)
    IN  /\ match.found
        /\ Decodes(match.json)
        /\ Keys \subseteq DOMAIN json_loads(normalize(match.json)).val

DecodedTag(body) ==
    json_loads(normalize(PHONELAB_DOC_PATTERN_search(body).json)).val["Tag"]

HasDash(tag) == \E i \in DOMAIN tag : tag[i] = Dash

\* The substring of tag after its last '-'; the whole tag when it has none.
AfterLastDash(tag) ==
    IF ~HasDash(tag) THEN tag
    ELSE LET i == CHOOSE d \in DOMAIN tag :
                     tag[d] = Dash /\ \A e \in (d + 1)..Len(tag) : tag[e] # Dash
         IN  SubSeq(tag, i + 1, Len(tag))

\* C1: a comment that has the marker and a malformed payload (a key
\* missing, braces unbalanced, text not decodable) adds no record, logs
\* exactly one error, and the scan goes on to the next comment.
C1_MalformedLogsOneError ==
    [][ LET c == COMMENT_PATTERN_search(s, pos)
        IN  (pc = "scan" /\ c.found /\ Malformed(c.body))
            => /\ tag_docs' = tag_docs
               /\ ErrorCount(log') = ErrorCount(log) + 1
               /\ pc' = "scan" ]_vars

C6_PayloadIsBalancedObject ==
    \A i \in DOMAIN ScannedComments :
        LET body == ScannedComments[i].body
        IN  HasBalancedPayload(body)
            => /\ PHONELAB_DOC_PATTERN_search(body).found
               /\ PHONELAB_DOC_PATTERN_search(body).json = BalancedPayload(body)

\* C7: the records of a file are those of the scanned comments that yield
\* one, in order; each carries 1 + the number of newlines before the start
\* of its comment, which is at least 1, and the line numbers never decrease.
C7_LineNumbers ==
    LET yielding == SelectSeq(ScannedComments,
                        LAMBDA c : loop_body(1, 1, s, c, <<>>, <<>>).docs # <<>>)
    IN  /\ Len(tag_docs) = Len(yielding)
        /\ \A i \in DOMAIN tag_docs :
              /\ tag_docs[i].line_no =
                    1 + Cardinality({j \in 1..(yielding[i].start - 1) :
                                        s[j] = "\n"})
              /\ tag_docs[i].line_no >= 1
        /\ \A i, j \in DOMAIN tag_docs :
              i < j => tag_docs[i].line_no <= tag_docs[j].line_no

\* C7 witness: a record of a comment that opens on line 2 or later and whose
\* marker stands on a line below the comment's opening delimiter.
C7_Witness ==
    /\ pc = "returned"
    /\ \E i \in DOMAIN ScannedComments :
          LET c == ScannedComments[i]
          IN  /\ loop_body(1, 1, s, c, <<>>, <<>>).docs # <<>>
              /\ \E d \in DOMAIN tag_docs :
                    /\ tag_docs[d].line_no = line_no_of(s, c)
                    /\ tag_docs[d].line_no >= 2
              /\ \E n \in 1..FirstMarker(c.body) : c.body[n] = "\n"

-----------------------------------------------------------------------------
(* The formatters applied to a collection of records. *)

Payload(category, tag, action) ==
    ("Category" :> FieldTable[category].val) @@
    ("SubCategory" :> FieldTable["SubCategory=s"].val) @@
    ("Tag" :> FieldTable[tag].val) @@
    ("Action" :> FieldTable[action].val) @@
    ("Description" :> FieldTable["Description=d"].val)

Payloads ==
    {Payload(c, t, a) : c \in {"Category=Net", "Category=UI"},
                        t \in {"Tag=l-UB", "Tag=u-e-UB", "Tag=n"},
                        a \in {"Action=Log", "Action=Drop"}}

\* The records of one file whose comments stand on lines 1, 2, ...
InitFmt ==
    /\ pc = "format"
    /\ \E n \in 0..MaxDocs :
          \E f \in [1..n -> Payloads] :
              tag_docs = [i \in 1..n |-> TagDoc_init(f[i], 1, 1, i).val]
    /\ html = NotRendered /\ rst = NotRendered
    /\ s = <<>> /\ pos = 0 /\ log = <<>>
    /\ projects = <<>> /\ pi = 0 /\ walked = <<>> /\ written = <<>>
    /\ src_file = NoFile
    /\ cwd = "start"
    /\ IdleChecker

\* str(FORMATTER_MAPPING['html'](tag_docs))
RenderHTML ==
    /\ pc = "format"
    /\ html = NotRendered
    /\ html' = FORMATTER_MAPPING("html", tag_docs)
    /\ UNCHANGED <<pc, s, pos, tag_docs, log, rst, projects, pi, walked,
                   written, src_file, cwd, checkerVars>>

\* str(FORMATTER_MAPPING['rst'](tag_docs))
RenderRST ==
    /\ pc = "format"
    /\ rst = NotRendered
    /\ rst' = FORMATTER_MAPPING("rst", tag_docs)
    /\ UNCHANGED <<pc, s, pos, tag_docs, log, html, projects, pi, walked,
                   written, src_file, cwd, checkerVars>>

NextFmt ==
    \/ RenderHTML
    \/ RenderRST

SpecFmt == InitFmt /\ [][NextFmt]_vars

(* What the properties of the formatters speak of. *)

ItemKind(m) ==
    CASE m \in {"<h2>", "+"} -> "category"
      [] m \in {"<h4>", "~"} -> "tag"
      [] m \in {"<b>Action</b>", "#. | **Action**"} -> "occurrence"
      [] OTHER -> "markup"

\* The (category, tag, occurrence) items of a rendered report, in emission
\* order, without their markup.
Items(out) ==
    LET ls == SelectSeq(out.body, LAMBDA l : ItemKind(l.m) # "markup")
    IN  [i \in DOMAIN ls |->
            [kind |-> ItemKind(ls[i].m), text |-> ls[i].text, t |-> ls[i].t]]

\* The index of the last item of a kind at or before i; 0 when none.
LastOfKind(items, kind, i) ==
    LET before == {j \in 1..i : items[j].kind = kind}
    IN  IF before = {} THEN 0
        ELSE CHOOSE j \in before : \A k \in before : k <= j

\* The order C2 asks of a report's items for the records docs.
Ordered(items, docs) ==
    /\ \A i, j \in DOMAIN items :
          (i < j /\ items[i].kind = "category" /\ items[j].kind = "category")
          => StrLT(items[i].text, items[j].text)
    /\ {items[i].text : i \in {j \in DOMAIN items : items[j].kind = "category"}}
          = {docs[d].category : d \in DOMAIN docs}
    /\ \A i, j \in DOMAIN items :
          (/\ i < j /\ items[i].kind = "tag" /\ items[j].kind = "tag"
           /\ LastOfKind(items, "category", i) = LastOfKind(items, "category", j))
          => StrLT(items[i].text, items[j].text)
    /\ \A i, j \in DOMAIN items :
          (/\ i < j /\ items[i].kind = "occurrence"
           /\ items[j].kind = "occurrence"
           /\ LastOfKind(items, "tag", i) = LastOfKind(items, "tag", j))
          => \/ StrLT(items[i].t.action, items[j].t.action)
             \/ /\ items[i].t.action = items[j].t.action
                /\ items[i].t.line_no < items[j].t.line_no
    /\ \A i \in DOMAIN items :
          /\ items[i].kind = "tag" =>
                /\ LastOfKind(items, "category", i) > 0
                /\ \E j \in DOMAIN items :
                      /\ items[j].kind = "occurrence"
                      /\ LastOfKind(items, "tag", j) = i
          /\ items[i].kind = "occurrence" =>
                /\ LastOfKind(items, "tag", i) > 0
                /\ items[LastOfKind(items, "tag", i)].text = items[i].t.tag
                /\ LastOfKind(items, "category", i)
                      < LastOfKind(items, "tag", i)
                /\ items[LastOfKind(items, "category", i)].text
                      = items[i].t.category
    /\ \A d \in DOMAIN docs :
          Cardinality({i \in DOMAIN items :
                          items[i].kind = "occurrence" /\ items[i].t = docs[d]})
             = 1
    /\ Cardinality({i \in DOMAIN items : items[i].kind = "occurrence"})
          = Len(docs)

\* C2: both formatters emit the categories in strictly increasing order,
\* each once; inside a category the tags in strictly increasing order, each
\* once; inside a tag the occurrences by action, equal actions in discovery
\* order; every record is emitted once, under its own category and tag.
C2_SectionsSorted ==
    /\ html # NotRendered => Ordered(Items(html), tag_docs)
    /\ rst # NotRendered => Ordered(Items(rst), tag_docs)

\* C2 witness: both reports are rendered for three records of one tag, the
\* first two of equal action and the third, discovered last, of a smaller
\* action, which is emitted first.
C2_Witness ==
    /\ html # NotRendered /\ rst # NotRendered
    /\ Len(tag_docs) = 3
    /\ tag_docs[1].tag = tag_docs[2].tag /\ tag_docs[2].tag = tag_docs[3].tag
    /\ tag_docs[1].category = tag_docs[2].category
    /\ tag_docs[2].category = tag_docs[3].category
    /\ tag_docs[1].action = tag_docs[2].action
    /\ StrLT(tag_docs[3].action, tag_docs[1].action)
    /\ Items(html)[3].t = tag_docs[3]
    /\ Items(rst)[3].t = tag_docs[3]

\* The number of distinct values among a list: its first occurrences.
Distinct(values) ==
    Cardinality({i \in DOMAIN values :
                    \A j \in 1..(i - 1) : values[j] # values[i]})

CountsOf(docs) ==
    [tags |-> Distinct([i \in DOMAIN docs |-> docs[i].tag]),
     actions |-> Distinct([i \in DOMAIN docs |-> docs[i].action]),
     categories |-> Distinct([i \in DOMAIN docs |-> docs[i].category]),
     institutions |-> Distinct([i \in DOMAIN docs |-> docs[i].institution])]

CountsAre(out, docs) ==
    /\ out.summary.tags = CountsOf(docs).tags
    /\ out.summary.actions = CountsOf(docs).actions
    /\ out.summary.categories = CountsOf(docs).categories
    /\ out.summary.institutions = CountsOf(docs).institutions
    /\ docs = <<>> =>
          /\ out.summary.tags = 0 /\ out.summary.actions = 0
          /\ out.summary.categories = 0 /\ out.summary.institutions = 0
          /\ \A i \in DOMAIN out.body : ItemKind(out.body[i].m) # "category"

\* C3: the four counts of each report are the numbers of distinct tags,
\* actions, categories and institutions of the whole collection; for the
\* empty collection they are 0 and the report has no category section.
C3_SummaryCounts ==
    /\ html # NotRendered => CountsAre(html, tag_docs)
    /\ rst # NotRendered => CountsAre(rst, tag_docs)

\* C3 witness: both reports rendered for three records with three tags of
\* two institutions in two categories and one action.
C3_Witness ==
    /\ html # NotRendered /\ rst # NotRendered
    /\ Len(tag_docs) = 3
    /\ html.summary.tags = 3 /\ html.summary.institutions = 2
    /\ html.summary.categories = 2 /\ html.summary.actions = 1
    /\ rst.summary.tags = 3 /\ rst.summary.institutions = 2

\* C8: the two formatters emit the same sequence of (category, tag,
\* occurrence) items and the same four counts.
C8_SameStructure ==
    (html # NotRendered /\ rst # NotRendered)
    => /\ Items(html) = Items(rst)
       /\ html.summary.tags = rst.summary.tags
       /\ html.summary.actions = rst.summary.actions
       /\ html.summary.categories = rst.summary.categories
       /\ html.summary.institutions = rst.summary.institutions

\* C8 witness: both reports rendered for records of two categories whose
\* emission order differs from their discovery order, in different markup.
C8_Witness ==
    /\ html # NotRendered /\ rst # NotRendered
    /\ Len(tag_docs) = 3
    /\ Cardinality(CategoriesOf(tag_docs)) = 2
    /\ Items(html)[3].t # tag_docs[1]
    /\ StrLT(tag_docs[2].action, tag_docs[1].action)
    /\ tag_docs[2].tag = tag_docs[1].tag
    /\ tag_docs[2].category = tag_docs[1].category
    /\ html.body # rst.body

-----------------------------------------------------------------------------
(* TagDoc.create_from_proj and tagdoc main *)

\* The loop of create_from_proj over the files os.walk yields: the records
\* of the files so far, extended file by file; an exception of
\* create_from_file ends it.
RECURSIVE walk_files(_, _, _, _)

\* tag_docs.extend(r), r being what create_from_file gave for the first
\* file, then the rest of the walk.
walk_extend(proj, files, docs, lg, r) ==
    IF r.exc # None
    THEN [exc |-> r.exc, val |-> <<>>, log |-> lg \o r.log]
    ELSE walk_files(proj, Tail(files), docs \o r.val, lg \o r.log)

walk_files(proj, files, docs, lg) ==
    IF files = <<>> THEN [exc |-> None, val |-> docs, log |-> lg]
    ELSE walk_extend(proj, files, docs, lg,
                     create_from_file(proj, Head(files)))

\* TagDoc.create_from_proj(proj)
create_from_proj(proj) == walk_files(proj.name, proj.files, <<>>, <<>>)

ValidComment ==
    Open \o <<" ", Marker, " ", "{", "Category=Net", "SubCategory=s",
              "Tag=l-UB", "Action=Log", "Description=d", "}", " ">> \o Close

BadComment ==
    Open \o <<" ", Marker, " ", "{", "Category=UI", "}", " ">> \o Close

\* The files a project of the model may hold.
MainFiles ==
    { File(1, ".c", TRUE, ValidComment),
      File(2, ".java", TRUE, BadComment \o <<"\n">> \o ValidComment),
      File(3, ".c", FALSE, <<>>),
      File(4, ".txt", FALSE, <<>>) }

RECURSIVE FileListsUpTo(_)
FileListsUpTo(n) ==
    IF n = 0 THEN {<<>>}
    ELSE LET prev == FileListsUpTo(n - 1)
         IN  prev \cup {Append(l, f) : l \in prev, f \in MainFiles}

\* git diff <develop> --exit-code: 0 no difference, 1 differences, 128 the
\* command failed.
DiffExitCodes == {0, 1, 128}

FileLists == FileListsUpTo(MaxFiles)

\* The manifests of the model: up to MaxProjects projects, each with the
\* exit code of its git diff and its files.
ProjectLists ==
    UNION { { [i \in 1..n |->
                 [name |-> i, ret |-> f[i].ret, files |-> f[i].files]] :
              f \in [1..n -> [ret : DiffExitCodes, files : FileLists]] } :
            n \in 0..MaxProjects }

InitMain ==
    /\ pc = "main"
    /\ projects \in ProjectLists
    /\ args \in [format : {"html", "rst"}, has_repo : {TRUE, FALSE}]
    /\ (Len(projects) > 0 => args.has_repo)
    /\ pi = 0 /\ walked = <<>> /\ written = <<>>
    /\ tag_docs = <<>> /\ log = <<>>
    /\ s = <<>> /\ pos = 0 /\ html = NotRendered /\ rst = NotRendered
    /\ src_file = NoFile
    /\ cwd = "start"
    /\ events = <<>> /\ cmds = <<>> /\ rel_info = None
    /\ branches = <<>> /\ exc = None

mainUnchanged ==
    UNCHANGED <<s, pos, html, rst, projects, src_file, args, events, cmds,
                rel_info, branches, exc>>

\* Lines 276-278: no .repo directory under the root.
MainNoRepo ==
    /\ pc = "main"
    /\ ~args.has_repo
    /\ log' = Append(log, LogLine("ERROR", "No .repo dir found", 0))
    /\ pc' = "returned"
    /\ UNCHANGED <<tag_docs, pi, walked, written, cwd>>
    /\ mainUnchanged

\* Lines 283-297: the projects are discovered; the loop starts.
MainDiscover ==
    /\ pc = "main"
    /\ args.has_repo
    /\ pc' = "loop"
    /\ pi' = 1
    /\ UNCHANGED <<tag_docs, log, walked, written, cwd>>
    /\ mainUnchanged

\* Lines 298-304: git diff exits 0, the project is ignored.
MainIgnore ==
    /\ pc = "loop"
    /\ pi <= Len(projects)
    /\ projects[pi].ret = 0
    /\ cwd' = projects[pi].name
    /\ log' = Append(log, LogLine("DEBUG", "Ignoring repo", projects[pi].name))
    /\ pi' = pi + 1
    /\ UNCHANGED <<pc, tag_docs, walked, written>>
    /\ mainUnchanged

\* Lines 306-309 when create_from_proj returned new_tags.
ParseReturned(new_tags) ==
    /\ new_tags.exc = None
    /\ log' = log
           \o <<LogLine("INFO", "Parsing project", projects[pi].name)>>
           \o new_tags.log
           \o <<LogLine("INFO", "tags found", Len(new_tags.val))>>
    /\ tag_docs' = tag_docs \o new_tags.val

\* Lines 306-307 when create_from_proj raised.
ParseRaised(new_tags) ==
    /\ new_tags.exc # None
    /\ log' = log
           \o <<LogLine("INFO", "Parsing project", projects[pi].name)>>
           \o new_tags.log

\* Lines 298-309: the project is parsed and its records are added.
MainParse ==
    /\ pc = "loop"
    /\ pi <= Len(projects)
    /\ projects[pi].ret # 0
    /\ ParseReturned(create_from_proj(projects[pi]))
    /\ cwd' = projects[pi].name
    /\ walked' = Append(walked, pi)
    /\ pi' = pi + 1
    /\ UNCHANGED <<pc, written>>
    /\ mainUnchanged

\* Lines 298-307: create_from_proj raises, and main has no handler.
MainParseRaises ==
    /\ pc = "loop"
    /\ pi <= Len(projects)
    /\ projects[pi].ret # 0
    /\ ParseRaised(create_from_proj(projects[pi]))
    /\ cwd' = projects[pi].name
    /\ walked' = Append(walked, pi)
    /\ pc' = "raised"
    /\ UNCHANGED <<tag_docs, pi, written>>
    /\ mainUnchanged

\* Lines 311-314: back to the start directory, the report is written.
MainWrite ==
    /\ pc = "loop"
    /\ pi > Len(projects)
    /\ cwd' = "start"
    /\ written' = Append(written, FORMATTER_MAPPING(args.format, tag_docs))
    /\ pc' = "returned"
    /\ UNCHANGED <<tag_docs, log, pi, walked>>
    /\ mainUnchanged

NextMain ==
    \/ MainNoRepo
    \/ MainDiscover
    \/ MainIgnore
    \/ MainParse
    \/ MainParseRaises
    \/ MainWrite

SpecMain == InitMain /\ [][NextMain]_vars

(* What the properties of the walk and of main speak of. *)

\* The project's files that create_from_file can read.
ReadableSources(proj) ==
    SelectSeq(proj.files, LAMBDA f : f.ext \in SRC_EXTENSIONS /\ f.readable)

RECURSIVE RecordsOfFiles(_, _)
RecordsOfFiles(name, files) ==
    IF files = <<>> THEN <<>>
    ELSE create_from_file(name, Head(files)).val
            \o RecordsOfFiles(name, Tail(files))

\* The project's loop iteration in main is over.
Processed(p) == pi > p \/ pc \in {"raised", "returned"}

RecordsFrom(p) == SelectSeq(tag_docs, LAMBDA t : t.proj = p)

Occurrences(seq, x) == Cardinality({i \in DOMAIN seq : seq[i] = x})

\* C5: an unreadable source file is skipped and the walk goes on: no
\* exception leaves create_from_proj, and once a walked project is done the
\* records of all its readable files have been returned.
C5_UnreadableFileSkipped ==
    /\ pc # "raised"
    /\ \A p \in DOMAIN projects :
          (Occurrences(walked, p) > 0 /\ Processed(p))
          => RecordsFrom(p) =
                RecordsOfFiles(p, ReadableSources(projects[p]))

\* C9: once main is past the discovery of the projects and has ended, the
\* projects left out of the report are those whose diff exited 0, each named
\* in a log line; every other project was walked exactly once; and the
\* output file was written once, after all projects.
C9_SkipOnlyUnmodified ==
    (pc \in {"raised", "returned"} /\ args.has_repo)
    => /\ \A p \in DOMAIN projects :
             /\ projects[p].ret = 0 =>
                   /\ Occurrences(walked, p) = 0
                   /\ \E i \in DOMAIN log :
                         /\ log[i].msg = "Ignoring repo"
                         /\ log[i].arg = projects[p].name
             /\ projects[p].ret # 0 => Occurrences(walked, p) = 1
       /\ Len(written) = 1
       /\ pi = Len(projects) + 1

-----------------------------------------------------------------------------
(* checker.py: main and its stages.  A stage issues shell commands; each   *)
(* may exit non-zero (CalledProcessError) or be interrupted from the       *)
(* keyboard, which ends the stage with that exception.                     *)

Unset == "unset"

Cmd(c, arg, dir) == [cmd |-> c, arg |-> arg, dir |-> dir]

Event(ev, stage) == [ev |-> ev, stage |-> stage]

\* The lines git branch -a may print, sorted: the remote experiment
\* branches of the AOSP base (with the code name they end in), a remote
\* logging branch, and a line that is neither.
AllLines ==
    << [kind |-> "experiment", name |-> <<"a">>],
       [kind |-> "experiment", name |-> <<"a", "b">>],
       [kind |-> "experiment", name |-> <<"b">>],
       [kind |-> "logging", name |-> <<"l">>],
       [kind |-> "other", name |-> <<"m">>] >>

\* The lines numbered in keep, in order.
RECURSIVE Subsequence(_, _, _)
Subsequence(seq, keep, i) ==
    IF i > Len(seq) THEN <<>>
    ELSE (IF i \in keep THEN <<seq[i]>> ELSE <<>>)
            \o Subsequence(seq, keep, i + 1)

BranchListings ==
    {Subsequence(AllLines, keep, 1) : keep \in SUBSET DOMAIN AllLines}

\* e in b
IsSubstring(e, b) ==
    \E i \in 1..(Len(b) - Len(e) + 1) : SubSeq(b, i, i + Len(e) - 1) = e

\* utils.get_repo_projs(args.aosp_root)
RepoProjs == [i \in 1..MaxRepoProjs |-> i]

InitChecker ==
    /\ pc = "parse_args"
    /\ args \in [exp : {{<<"a">>}, {<<"b">>}, {<<"a">>, <<"b">>}},
                 merge_only : BOOLEAN, has_repo : BOOLEAN]
    /\ branches \in BranchListings
    /\ rel_info = [has_args |-> FALSE, test_branch |-> Unset]
    /\ events = <<>> /\ cmds = <<>> /\ exc = None
    /\ log = <<>>
    /\ cwd = "start"
    /\ tag_docs = <<>>
    /\ IdleTagdoc

checkerUnchanged == UNCHANGED <<tagdocVars, args, branches>>

\* The commands of planned that are issued when the k-th one raises; all of
\* them when k = 0.
Issued(planned, k) == SubSeq(planned, 1, IF k = 0 THEN Len(planned) ELSE k)

\* A stage of the try block raises kind: KeyboardInterrupt is passed over
\* (lines 275-276), anything else goes to the handler of line 277.
StageRaises(stage, kind) ==
    /\ events' = events \o <<Event("start", stage), Event("raise", stage)>>
    /\ exc' = IF kind = "KeyboardInterrupt" THEN None ELSE kind
    /\ pc' = IF kind = "KeyboardInterrupt" THEN "finally" ELSE "except"

\* A stage returns; time_it logs how long it took.
StageReturns(stage, lines, next) ==
    /\ events' = events \o <<Event("start", stage), Event("done", stage)>>
    /\ log' = log \o lines \o <<LogLine("DEBUG", "finished", stage)>>
    /\ exc' = None
    /\ pc' = next

Kinds == {"CalledProcessError", "KeyboardInterrupt"}

\* Lines 141-151, args.aosp_root has a .repo directory.
ParseArgs ==
    /\ pc = "parse_args"
    /\ args.has_repo
    /\ rel_info' = [rel_info EXCEPT !.has_args = TRUE]
    /\ pc' = "setup_test_branch"
    /\ UNCHANGED <<events, cmds, exc, log, cwd>>
    /\ checkerUnchanged

\* Lines 148-149: parse_args raises outside the try block of main.
ParseArgsRaises ==
    /\ pc = "parse_args"
    /\ ~args.has_repo
    /\ exc' = "Exception"
    /\ pc' = "raised"
    /\ UNCHANGED <<events, cmds, rel_info, log, cwd>>
    /\ checkerUnchanged

SetupPlan ==
    << Cmd("repo forall git fetch", "remote", "aosp_root"),
       Cmd("repo forall git checkout -B", "rand_string", "aosp_root") >>

\* Lines 154-172
SetupTestBranch ==
    /\ pc = "setup_test_branch"
    /\ cwd' = "aosp_root"
    /\ \E k \in 0..Len(SetupPlan), kind \in Kinds :
          /\ cmds' = cmds \o Issued(SetupPlan, k)
          /\ IF k = 0
             THEN /\ StageReturns("setup_test_branch",
                        << LogLine("INFO", "Fetching latest develop branch", 0),
                           LogLine("INFO", "Creating temp branch", 0) >>,
                        "merge_branches")
                  /\ rel_info' = [rel_info EXCEPT !.test_branch = "rand_string"]
             ELSE /\ StageRaises("setup_test_branch", kind)
                  /\ log' = log \o
                        SubSeq(<< LogLine("INFO", "Fetching latest develop branch", 0),
                                  LogLine("INFO", "Creating temp branch", 0) >>,
                               1, k)
                  /\ UNCHANGED rel_info
    /\ checkerUnchanged

\* Lines 192-207: the branches merge_branches picks from the listing.
logging_branches == SelectSeq(branches, LAMBDA l : l.kind = "logging")

exp_branches ==
    SelectSeq(branches,
              LAMBDA l : /\ l.kind = "experiment"
                         /\ \E e \in args.exp : IsSubstring(e, l.name))

FindLines ==
    [i \in DOMAIN logging_branches |->
        LogLine("INFO", "Find logging branch", logging_branches[i].name)]
    \o [i \in DOMAIN exp_branches |->
        LogLine("INFO", "Find experiment branch", exp_branches[i].name)]

ListCmd == Cmd("git branch -a", 0, "frameworks/base")

\* Lines 216-217
LoggingMerges ==
    [i \in DOMAIN logging_branches |->
        Cmd("repo forall git merge", logging_branches[i].name, "aosp_root")]

\* Lines 220-226: for exp in exp_branches, for proj in projs.
ExperimentMerges ==
    [n \in 1..(Len(exp_branches) * Len(RepoProjs)) |->
        Cmd("git merge",
            exp_branches[((n - 1) \div Len(RepoProjs)) + 1].name,
            RepoProjs[((n - 1) % Len(RepoProjs)) + 1])]

MergePlan == LoggingMerges \o ExperimentMerges

\* Line 190: git branch -a raises.
MergeBranchesListingRaises ==
    /\ pc = "merge_branches"
    /\ cwd' = "frameworks/base"
    /\ cmds' = Append(cmds, ListCmd)
    /\ \E kind \in Kinds : StageRaises("merge_branches", kind)
    /\ log' = Append(log, LogLine("DEBUG", "Parsing experiment branches", 0))
    /\ UNCHANGED rel_info
    /\ checkerUnchanged

\* Lines 209-211: no experiment branch was picked.
MergeBranchesNoExperiment ==
    /\ pc = "merge_branches"
    /\ exp_branches = <<>>
    /\ cwd' = "frameworks/base"
    /\ cmds' = Append(cmds, ListCmd)
    /\ StageRaises("merge_branches", "Exception")
    /\ log' = log \o <<LogLine("DEBUG", "Parsing experiment branches", 0)>>
                  \o FindLines
    /\ UNCHANGED rel_info
    /\ checkerUnchanged

\* Lines 213-231: a merge raises; the merges before it were made.
MergeBranchesMergeRaises ==
    /\ pc = "merge_branches"
    /\ exp_branches # <<>>
    /\ cwd' = "aosp_root"
    /\ \E k \in 1..Len(MergePlan), kind \in Kinds :
          /\ cmds' = cmds \o <<ListCmd>> \o Issued(MergePlan, k)
          /\ StageRaises("merge_branches", kind)
          /\ log' = log \o <<LogLine("DEBUG", "Parsing experiment branches", 0)>>
                        \o FindLines
                        \o <<LogLine("INFO", "Merging logging branches", 0)>>
                        \o (IF k > Len(LoggingMerges)
                            THEN <<LogLine("ERROR", "Failed to merge",
                                           MergePlan[k].arg)>>
                            ELSE <<>>)
    /\ UNCHANGED rel_info
    /\ checkerUnchanged

\* Lines 185-231: every merge succeeds.
MergeBranches ==
    /\ pc = "merge_branches"
    /\ exp_branches # <<>>
    /\ cwd' = "aosp_root"
    /\ cmds' = cmds \o <<ListCmd>> \o MergePlan
    /\ StageReturns("merge_branches",
          <<LogLine("DEBUG", "Parsing experiment branches", 0)>>
             \o FindLines
             \o <<LogLine("INFO", "Merging logging branches", 0)>>
             \o [i \in DOMAIN exp_branches |->
                    LogLine("INFO", "Merging", exp_branches[i].name)],
          "test_tag_doc")
    /\ UNCHANGED rel_info
    /\ checkerUnchanged

TagDocPlan == <<Cmd("python tagdoc.py --out /dev/null", 0, "aosp_root")>>

\* Lines 246-250
TestTagDoc ==
    /\ pc = "test_tag_doc"
    /\ cwd' = "aosp_root"
    /\ cmds' = cmds \o TagDocPlan
    /\ \E k \in 0..1, kind \in Kinds :
          IF k = 0
          THEN StageReturns("test_tag_doc", <<>>, "merge_only")
          ELSE StageRaises("test_tag_doc", kind) /\ UNCHANGED log
    /\ UNCHANGED rel_info
    /\ checkerUnchanged

\* main without lines 271-272: the platform is built whatever merge_only is.
CheckMergeOnly_ignored ==
    /\ pc = "merge_only"
    /\ pc' = "build_platform"
    /\ UNCHANGED <<events, cmds, rel_info, exc, log, cwd>>
    /\ checkerUnchanged

\* Lines 271-272: with merge_only, main returns from inside the try block:
\* the else clause is skipped, the finally clause runs.
CheckMergeOnly ==
    /\ pc = "merge_only"
    /\ pc' = IF args.merge_only THEN "finally" ELSE "build_platform"
    /\ UNCHANGED <<events, cmds, rel_info, exc, log, cwd>>
    /\ checkerUnchanged

BuildPlan ==
    << Cmd("make clean", 0, "aosp_root"),
       Cmd("make -j dist", 0, "aosp_root") >>

\* Lines 234-243
BuildPlatform ==
    /\ pc = "build_platform"
    /\ cwd' = "aosp_root"
    /\ \E k \in 0..Len(BuildPlan), kind \in Kinds :
          /\ cmds' = cmds \o Issued(BuildPlan, k)
          /\ IF k = 0
             THEN StageReturns("build_platform",
                     <<LogLine("INFO", "Building platform", 0)>>, "else")
             ELSE /\ StageRaises("build_platform", kind)
                  /\ log' = Append(log, LogLine("INFO", "Building platform", 0))
    /\ UNCHANGED rel_info
    /\ checkerUnchanged

\* A handler whose AttributeError leaves main at once, as if the try
\* statement had no finally clause.
Except_aborts ==
    /\ pc = "except"
    /\ IF rel_info.test_branch = Unset
       THEN /\ log' = Append(log, LogLine("ERROR", "[FAILED]", exc))
            /\ exc' = "AttributeError"
            /\ pc' = "raised"
       ELSE /\ log' = log \o
                  << LogLine("ERROR", "[FAILED]", exc),
                     LogLine("INFO", "Note: all repos are in test branch",
                             rel_info.test_branch) >>
            /\ exc' = None
            /\ pc' = "finally"
    /\ UNCHANGED <<events, cmds, rel_info, cwd>>
    /\ checkerUnchanged

\* Lines 277-281: the handler logs [FAILED], then reads rel_info.test_branch,
\* which raises AttributeError when setup_test_branch never set it.
Except ==
    /\ pc = "except"
    /\ IF rel_info.test_branch = Unset
       THEN /\ log' = Append(log, LogLine("ERROR", "[FAILED]", exc))
            /\ exc' = "AttributeError"
       ELSE /\ log' = log \o
                  << LogLine("ERROR", "[FAILED]", exc),
                     LogLine("INFO", "Note: all repos are in test branch",
                             rel_info.test_branch) >>
            /\ exc' = None
    /\ pc' = "finally"
    /\ UNCHANGED <<events, cmds, rel_info, cwd>>
    /\ checkerUnchanged

\* Lines 282-284
Else ==
    /\ pc = "else"
    /\ log' = Append(log, LogLine("INFO", "[PASS]", 0))
    /\ pc' = "finally"
    /\ UNCHANGED <<events, cmds, rel_info, exc, cwd>>
    /\ checkerUnchanged

\* Lines 285-287: cleanup(rel_info) changes to the AOSP root, then main
\* changes back to the start directory; an exception in flight goes on.
Finally ==
    /\ pc = "finally"
    /\ events' = events \o <<Event("cleanup", "aosp_root"),
                             Event("chdir", "start")>>
    /\ cwd' = "start"
    /\ pc' = IF exc = None THEN "done" ELSE "raised"
    /\ UNCHANGED <<cmds, rel_info, exc, log>>
    /\ checkerUnchanged

NextChecker ==
    \/ ParseArgs
    \/ ParseArgsRaises
    \/ SetupTestBranch
    \/ MergeBranchesListingRaises
    \/ MergeBranchesNoExperiment
    \/ MergeBranchesMergeRaises
    \/ MergeBranches
    \/ TestTagDoc
    \/ CheckMergeOnly
    \/ BuildPlatform
    \/ Except
    \/ Else
    \/ Finally

SpecChecker == InitChecker /\ [][NextChecker]_vars

(* What the properties of checker main speak of. *)

STAGES ==
    <<"setup_test_branch", "merge_branches", "test_tag_doc", "build_platform">>

\* The stages started so far, in order.
Started ==
    LET starts == SelectSeq(events, LAMBDA e : e.ev = "start")
    IN  [i \in DOMAIN starts |-> starts[i].stage]

EventIndex(ev, stage) ==
    {i \in DOMAIN events : events[i] = Event(ev, stage)}

\* C10: the stages start in the order setup_test_branch, merge_branches,
\* test_tag_doc, build_platform, each at most once; build_platform starts
\* only after the three others have completed and never with merge_only;
\* no stage starts after a stage has raised.
C10_StageOrder ==
    /\ Len(Started) <= Len(STAGES)
    /\ Started = SubSeq(STAGES, 1, Len(Started))
    /\ \A b \in EventIndex("start", "build_platform") :
          /\ ~args.merge_only
          /\ \A n \in 1..3 : \E d \in EventIndex("done", STAGES[n]) : d < b
    /\ \A i, j \in DOMAIN events :
          (events[i].ev = "raise" /\ events[j].ev = "start") => j < i

\* C10 witness: build_platform has been started, after the three earlier
\* stages completed.
C10_Witness ==
    /\ EventIndex("start", "build_platform") # {}
    /\ \A n \in 1..3 : EventIndex("done", STAGES[n]) # {}
    /\ ~args.merge_only


\* The requested experiment e has a remote experiment branch of the AOSP
\* base in the listing (its code name occurs in the branch name).
HasExperimentBranch(e) ==
    \E i \in DOMAIN branches :
        /\ branches[i].kind = "experiment"
        /\ IsSubstring(e, branches[i].name)

MergeCommands ==
    {i \in DOMAIN cmds : cmds[i].cmd \in {"repo forall git merge", "git merge"}}

\* C11: when some entry of --exp has no remote experiment branch, a started
\* merge_branches has raised, and no merge command (of a logging branch or
\* of an experiment branch) was issued.
C11_MissingExperimentRaises ==
    (/\ EventIndex("start", "merge_branches") # {}
     /\ \E e \in args.exp : ~HasExperimentBranch(e))
    => /\ EventIndex("raise", "merge_branches") # {}
       /\ MergeCommands = {}

LogIndex(msg) == {i \in DOMAIN log : log[i].msg = msg}

Ended == pc \in {"done", "raised"}

\* C12: once parse_args has succeeded, main goes on until it has ended, and
\* when it has ended the last two things it did were cleanup and then the
\* change back to the start directory, each once, whatever the path; [PASS]
\* is logged at most once, only when all four stages completed without
\* merge_only, and never together with [FAILED].
C12_CleanupAndRestore ==
    /\ (rel_info.has_args /\ ~Ended) => ENABLED NextChecker
    /\ (rel_info.has_args /\ Ended)
       => /\ Len(events) >= 2
          /\ events[Len(events) - 1] = Event("cleanup", "aosp_root")
          /\ events[Len(events)] = Event("chdir", "start")
          /\ Cardinality(EventIndex("cleanup", "aosp_root")) = 1
          /\ Cardinality(EventIndex("chdir", "start")) = 1
          /\ cwd = "start"
    /\ Cardinality(LogIndex("[PASS]")) <= 1
    /\ LogIndex("[PASS]") # {}
       => /\ LogIndex("[FAILED]") = {}
          /\ ~args.merge_only
          /\ \A n \in DOMAIN STAGES : EventIndex("done", STAGES[n]) # {}
          /\ \A i \in DOMAIN events : events[i].ev # "raise"

\* C12 witness: setup_test_branch raised, the handler logged [FAILED] and
\* raised AttributeError itself, and main has ended back in the start
\* directory after cleanup.
C12_Witness ==
    /\ rel_info.has_args
    /\ pc = "raised"
    /\ exc = "AttributeError"
    /\ rel_info.test_branch = Unset
    /\ LogIndex("[FAILED]") # {}
    /\ EventIndex("cleanup", "aosp_root") # {}
    /\ cwd = "start"

=============================================================================
